---- MODULE Spec2Model ----
(***************************************************************************)
(* Model of src/js/script.js: the shift cipher (class Caesar), the         *)
(* running-key cipher (class Vigenere) and the arithmetic helper mod.      *)
(* The file holds two revisions of the classes; the model is of the later  *)
(* one (lines 161-323).                                                    *)
(*                                                                         *)
(* A JavaScript string is modelled as a sequence of symbols, one TLA+      *)
(* string per UTF-16 code unit.  Code units outside ASCII are written      *)
(* "U+0430" and so on.                                                     *)
(***************************************************************************)
EXTENDS Integers, Sequences, FiniteSets, TLC

VARIABLES caesar, vigenere, call

vars == <<caesar, vigenere, call>>

(***************************************************************************)
(* Bounds of the model.                                                    *)
(***************************************************************************)
MaxTextLen == 2
MaxShift == 4
MaxKeyLen == 2
MaxModK == 60
MaxModN == 26

(***************************************************************************)
(* JavaScript values and library functions the code relies on.             *)
(***************************************************************************)

\* The value undefined.  It is no symbol: every symbol is a one-unit string.
Undefined == "undefined"

\* String(undefined), what `s += undefined` appends.
UndefinedText == <<"u", "n", "d", "e", "f", "i", "n", "e", "d">>

\* An optional argument: omitted at the call, or given with a value.
Omitted(dummy) == [given |-> FALSE, val |-> dummy]
Given(v) == [given |-> TRUE, val |-> v]

\* A default parameter `p = d`: d when the argument is omitted.
DefaultParam(arg, d) == IF arg.given THEN arg.val ELSE d

\* String.prototype.indexOf for a one-symbol needle: the first position
\* (from 0) holding the symbol, or -1.
indexOf(s, c) ==
    IF \E i \in 1..Len(s) : s[i] = c
    THEN (CHOOSE i \in 1..Len(s) : s[i] = c /\ \A j \in 1..(i - 1) : s[j] # c) - 1
    ELSE -1

\* s[i] for an integer i: the symbol at position i (from 0), or undefined
\* when i is no position of s.
StrAt(s, i) == IF i \in 0..(Len(s) - 1) THEN s[i + 1] ELSE Undefined

\* `s += v` for a value v that is a symbol or undefined.
StrAppend(s, v) == IF v = Undefined THEN s \o UndefinedText ELSE Append(s, v)

\* One element of Array.prototype.join(''): undefined joins as the empty
\* string.
JoinElement(v) == IF v = Undefined THEN <<>> ELSE <<v>>

\* The remainder operator a % n of JavaScript for n > 0: it truncates, so
\* the result has the sign of a.  (TLA+'s % is the floored one.)
JsRem(a, n) == IF a >= 0 THEN a % n ELSE 0 - ((0 - a) % n)

\* function mod(k, n) { return (k + n) % n; }
mod(k, n) == JsRem(k + n, n)

\* The operator ||: the left operand unless it is falsy (the empty string).
OrElse(a, b) == IF a = <<>> THEN b ELSE a

\* String.prototype.toLowerCase on one symbol.  The upper-case symbols that
\* occur in the model's inputs are listed; every other symbol of the model
\* is its own lower case.
UpperCaseSymbols == <<"A", "B", "C", "K">>
LowerCaseSymbols == <<"a", "b", "c", "k">>

toLowerCaseSymbol(c) ==
    IF \E i \in 1..Len(UpperCaseSymbols) : UpperCaseSymbols[i] = c
    THEN LowerCaseSymbols[CHOOSE i \in 1..Len(UpperCaseSymbols) :
                              UpperCaseSymbols[i] = c]
    ELSE c

\* String.prototype.toLowerCase
toLowerCase(s) == [i \in 1..Len(s) |-> toLowerCaseSymbol(s[i])]

\* const DEFAULT_ALPHABET: the 32 lower-case Cyrillic letters of the source,
\* by code unit.
DEFAULT_ALPHABET ==
    <<"U+0430", "U+0431", "U+0432", "U+0433", "U+0434", "U+0435", "U+0454",
      "U+0436", "U+0437", "U+0438", "U+0456", "U+0457", "U+0439", "U+043A",
      "U+043B", "U+043C", "U+043D", "U+043E", "U+043F", "U+0440", "U+0441",
      "U+0442", "U+0443", "U+0444", "U+0445", "U+0446", "U+0447", "U+0448",
      "U+0449", "U+044C", "U+044E", "U+044F">>

(***************************************************************************)
(* Alphabets, texts and shifts the operations are called with.             *)
(***************************************************************************)
Latin27 ==
    <<"a", "b", "c", "d", "e", "f", "g", "h", "i", "j", "k", "l", "m", "n",
      "o", "p", "q", "r", "s", "t", "u", "v", "w", "x", "y", "z", " ">>

Abc == <<"a", "b", "c">>

\* An alphabet with a duplicate symbol: lookup finds the first.
Aba == <<"a", "b", "a">>

Alphabets == {<<>>, Abc, Aba, Latin27}

NoDuplicates(s) == \A i, j \in 1..Len(s) : s[i] = s[j] => i = j

Range(s) == {s[i] : i \in 1..Len(s)}

SeqsUpTo(S, n) == UNION {[1..k -> S] : k \in 0..n}

\* "!" is in no alphabet; "c" is the last symbol of Abc and not in Aba.
TextSymbols == {"a", "c", "!"}

Hello == <<"h", "e", "l", "l", "o">>

AttackAtDawn ==
    <<"a", "t", "t", "a", "c", "k", " ", "a", "t", " ", "d", "a", "w", "n">>

Texts == SeqsUpTo(TextSymbols, MaxTextLen) \cup {Hello, AttackAtDawn}

Shifts == ((0 - MaxShift)..MaxShift) \cup {10}

ShiftArgs == {Omitted(0)} \cup {Given(s) : s \in Shifts}

\* "!" is in no alphabet; "b" and "c" shift by 1 and 2 in Abc.
KeySymbols == {"b", "c", "!"}

Key == <<"k", "e", "y">>

Keys == SeqsUpTo(KeySymbols, MaxKeyLen) \cup {Key}

\* Arguments of the constructors.
KeywordArgs == {Omitted(<<>>), Given(<<>>)}

MixedCase == <<"A", "b", "C">>

AlphabetArgs == {Omitted(<<>>)} \cup {Given(a) : a \in Alphabets \cup {MixedCase}}

KeyArgs == {Omitted(<<>>), Given(<<"K", "e", "y">>)} \cup {Given(k) : k \in Keys}

(***************************************************************************)
(* class Caesar                                                            *)
(***************************************************************************)

\* The default of the constructor's parameter shift.
DefaultShift == 3

\* new Caesar(shift = 3, keyword, alphabet): the instance, or the TypeError
\* that keyword.toLowerCase() or alphabet.toLowerCase() throws when the
\* argument is omitted (undefined).
Caesar_constructor(shiftArg, keywordArg, alphabetArg) ==
    LET shift == DefaultParam(shiftArg, DefaultShift)
    IN  IF ~keywordArg.given \/ ~alphabetArg.given
        THEN [outcome |-> "TypeError"]
        ELSE [outcome |-> "returned",
              instance |->
                  [shift |-> shift,
                   keyword |-> OrElse(toLowerCase(keywordArg.val), <<>>),
                   alphabet |-> OrElse(toLowerCase(alphabetArg.val),
                                       DEFAULT_ALPHABET)]]

\* Caesar.shiftChar without the test of Pi: the index is computed for a
\* symbol that is not in the alphabet too, and with an empty alphabet it is
\* NaN, which reads undefined.
Caesar_shiftChar_noCheck(self, char, shift) ==
    LET Pi == indexOf(self.alphabet, char)
    IN  IF Len(self.alphabet) = 0
        THEN Undefined
        ELSE StrAt(self.alphabet, mod(Pi + shift, Len(self.alphabet)))

\* Caesar.shiftChar(char, shift)
Caesar_shiftChar(self, char, shift) ==
    LET Pi == indexOf(self.alphabet, char)
    IN  IF Pi = -1
        THEN char
        ELSE LET Ci == mod(Pi + shift, Len(self.alphabet))
             IN  StrAt(self.alphabet, Ci)

\* The loop of Caesar.encrypt from index i (from 0) with the text built so far.
RECURSIVE Caesar_encryptLoop(_, _, _, _, _)
Caesar_encryptLoop(self, plaintext, shift, i, ciphertext) ==
    IF i < Len(plaintext)
    THEN LET char == plaintext[i + 1]
             newChar == Caesar_shiftChar(self, char, shift)
         IN  Caesar_encryptLoop(self, plaintext, shift, i + 1,
                                StrAppend(ciphertext, newChar))
    ELSE ciphertext

\* Caesar.encrypt(plaintext, shift = this.shift)
Caesar_encrypt(self, plaintext, shiftArg) ==
    LET shift == DefaultParam(shiftArg, self.shift)
    IN  Caesar_encryptLoop(self, plaintext, shift, 0, <<>>)

\* Caesar.decrypt that ignores its shift argument and negates the stored
\* shift, as decrypt(ciphertext) of lines 35-37 does.
Caesar_decrypt_storedShift(self, ciphertext, shiftArg) ==
    Caesar_encrypt(self, ciphertext, Given(0 - self.shift))

\* Caesar.decrypt(ciphertext, shift = this.shift)
Caesar_decrypt(self, ciphertext, shiftArg) ==
    LET shift == DefaultParam(shiftArg, self.shift)
    IN  Caesar_encrypt(self, ciphertext, Given(0 - shift))

(***************************************************************************)
(* class Vigenere                                                          *)
(***************************************************************************)

\* static Direction
ENCRYPT == 1
DECRYPT == -1

\* new Vigenere(key, alphabet): the instance, or the TypeError that
\* key.toLowerCase() or alphabet.toLowerCase() throws when the argument is
\* omitted (undefined).
Vigenere_constructor(keyArg, alphabetArg) ==
    IF ~keyArg.given \/ ~alphabetArg.given
    THEN [outcome |-> "TypeError"]
    ELSE [outcome |-> "returned",
          instance |->
              [key |-> OrElse(toLowerCase(keyArg.val), <<>>),
               alphabet |-> OrElse(toLowerCase(alphabetArg.val),
                                   Append(DEFAULT_ALPHABET, " "))]]

\* The key read at i without the remainder: undefined past the key's end.
Vigenere_keyAt_noWrap(self, i) == StrAt(self.key, i)

\* this.key[i % this.key.length]: with an empty key the index is NaN and the
\* value read is undefined.
Vigenere_keyAt(self, i) ==
    IF Len(self.key) = 0
    THEN Undefined
    ELSE StrAt(self.key, JsRem(i, Len(self.key)))

\* The loop of Vigenere.generateFullKey from index i with the key built so
\* far.
RECURSIVE Vigenere_fullKeyLoop(_, _, _, _)
Vigenere_fullKeyLoop(self, text, i, fullKey) ==
    IF i < Len(text)
    THEN Vigenere_fullKeyLoop(self, text, i + 1,
                              StrAppend(fullKey, Vigenere_keyAt(self, i)))
    ELSE fullKey

\* Vigenere.generateFullKey(text)
Vigenere_generateFullKey(self, text) == Vigenere_fullKeyLoop(self, text, 0, <<>>)

\* Vigenere.shiftChar with the remainder of the commented-out line 223,
\* (charIndex + (direction * keyIndex)) % this.alphabet.length, in place of mod.
Vigenere_shiftChar_remainder(self, char, keyChar, direction) ==
    LET charIndex == indexOf(self.alphabet, char)
        keyIndex == indexOf(self.alphabet, keyChar)
    IN  IF charIndex = -1 \/ keyIndex = -1
        THEN char
        ELSE StrAt(self.alphabet,
                   JsRem(charIndex + (direction * keyIndex), Len(self.alphabet)))

\* Vigenere.shiftChar(char, keyChar, direction)
Vigenere_shiftChar(self, char, keyChar, direction) ==
    LET charIndex == indexOf(self.alphabet, char)
        keyIndex == indexOf(self.alphabet, keyChar)
    IN  IF charIndex = -1 \/ keyIndex = -1
        THEN char
        ELSE LET shiftedIndex == mod(charIndex + (direction * keyIndex),
                                     Len(self.alphabet))
             IN  StrAt(self.alphabet, shiftedIndex)

\* text.split('').map((char, i) => this.shiftChar(char, fullKey[i], direction))
\*     .join('') from index i, with the elements joined so far.
RECURSIVE Vigenere_mapJoin(_, _, _, _, _, _)
Vigenere_mapJoin(self, text, fullKey, direction, i, joined) ==
    IF i < Len(text)
    THEN LET char == text[i + 1]
             mapped == Vigenere_shiftChar(self, char, StrAt(fullKey, i), direction)
         IN  Vigenere_mapJoin(self, text, fullKey, direction, i + 1,
                              joined \o JoinElement(mapped))
    ELSE joined

\* Vigenere.encrypt(plaintext)
Vigenere_encrypt(self, plaintext) ==
    LET fullKey == Vigenere_generateFullKey(self, plaintext)
    IN  Vigenere_mapJoin(self, plaintext, fullKey, ENCRYPT, 0, <<>>)

\* Vigenere.decrypt(ciphertext)
Vigenere_decrypt(self, ciphertext) ==
    LET fullKey == Vigenere_generateFullKey(self, ciphertext)
    IN  Vigenere_mapJoin(self, ciphertext, fullKey, DECRYPT, 0, <<>>)

(***************************************************************************)
(* The state: the cipher instances (const caesar, const vigenere) and the  *)
(* last call with its result.  The two instances share no state, so a      *)
(* behaviour constructs one of them and follows it.                        *)
(***************************************************************************)
Idle == [op |-> "idle"]

NotConstructed == [constructed |-> FALSE]

CipherOps == {"Caesar.encrypt", "Caesar.decrypt", "Vigenere.encrypt", "Vigenere.decrypt"}

Init ==
    /\ caesar = NotConstructed
    /\ vigenere = NotConstructed
    /\ call = Idle

\* const caesar = new Caesar(shift?, keyword?, alphabet?)
NewCaesar ==
    /\ call.op = "idle"
    /\ caesar = NotConstructed
    /\ vigenere = NotConstructed
    /\ \E shiftArg \in ShiftArgs, keywordArg \in KeywordArgs,
          alphabetArg \in AlphabetArgs :
          LET result == Caesar_constructor(shiftArg, keywordArg, alphabetArg)
          IN  /\ call' = [op |-> "new Caesar", shiftArg |-> shiftArg,
                          keywordArg |-> keywordArg, alphabetArg |-> alphabetArg,
                          result |-> result]
              /\ caesar' = IF result.outcome = "returned"
                           THEN result.instance
                           ELSE caesar
    /\ UNCHANGED vigenere

\* const vigenere = new Vigenere(key?, alphabet?)
NewVigenere ==
    /\ call.op = "idle"
    /\ caesar = NotConstructed
    /\ vigenere = NotConstructed
    /\ \E keyArg \in KeyArgs, alphabetArg \in AlphabetArgs :
          LET result == Vigenere_constructor(keyArg, alphabetArg)
          IN  /\ call' = [op |-> "new Vigenere", keyArg |-> keyArg,
                          alphabetArg |-> alphabetArg, result |-> result]
              /\ vigenere' = IF result.outcome = "returned"
                             THEN result.instance
                             ELSE vigenere
    /\ UNCHANGED caesar

\* caesar.alphabet = ...: a caller assigns the field, as line 260 does; any
\* string may be assigned, the empty one included.
CaesarSetAlphabet ==
    /\ call.op = "idle"
    /\ caesar # NotConstructed
    /\ \E a \in Alphabets : caesar' = [caesar EXCEPT !.alphabet = a]
    /\ UNCHANGED <<vigenere, call>>

\* A call of caesar.encrypt(text, shift?) that returns.
CaesarEncrypt ==
    /\ call.op = "idle"
    /\ caesar # NotConstructed
    /\ \E text \in Texts, shiftArg \in ShiftArgs :
          call' = [op |-> "Caesar.encrypt", text |-> text, shiftArg |-> shiftArg,
                   self |-> caesar, chained |-> FALSE, orig |-> text,
                   outcome |-> "returned",
                   out |-> Caesar_encrypt(caesar, text, shiftArg)]
    /\ UNCHANGED <<caesar, vigenere>>

\* A call of caesar.decrypt(text, shift?) that returns.
CaesarDecrypt ==
    /\ call.op = "idle"
    /\ caesar # NotConstructed
    /\ \E text \in Texts, shiftArg \in ShiftArgs :
          call' = [op |-> "Caesar.decrypt", text |-> text, shiftArg |-> shiftArg,
                   self |-> caesar, chained |-> FALSE, orig |-> text,
                   outcome |-> "returned",
                   out |-> Caesar_decrypt(caesar, text, shiftArg)]
    /\ UNCHANGED <<caesar, vigenere>>

\* caesar.decrypt(caesar.encrypt(text, s), s): the result of the encryption
\* is decrypted with the same shift argument.
CaesarDecryptResult ==
    /\ call.op = "Caesar.encrypt"
    /\ call' = [op |-> "Caesar.decrypt", text |-> call.out,
                shiftArg |-> call.shiftArg,
                self |-> caesar, chained |-> TRUE, orig |-> call.text,
                outcome |-> "returned",
                out |-> Caesar_decrypt(caesar, call.out, call.shiftArg)]
    /\ UNCHANGED <<caesar, vigenere>>

\* vigenere.key = key
VigenereSetKey ==
    /\ call.op = "idle"
    /\ vigenere # NotConstructed
    /\ \E k \in Keys : vigenere' = [vigenere EXCEPT !.key = k]
    /\ UNCHANGED <<caesar, call>>

\* vigenere.alphabet = ...: a caller assigns the field, as line 297 does.
VigenereSetAlphabet ==
    /\ call.op = "idle"
    /\ vigenere # NotConstructed
    /\ \E a \in Alphabets : vigenere' = [vigenere EXCEPT !.alphabet = a]
    /\ UNCHANGED <<caesar, call>>

\* A call of vigenere.generateFullKey(text) that returns.
VigenereGenerateFullKey ==
    /\ call.op = "idle"
    /\ vigenere # NotConstructed
    /\ \E text \in Texts :
          call' = [op |-> "Vigenere.generateFullKey", text |-> text,
                   self |-> vigenere, chained |-> FALSE, orig |-> text,
                   outcome |-> "returned",
                   out |-> Vigenere_generateFullKey(vigenere, text)]
    /\ UNCHANGED <<caesar, vigenere>>

\* A call of vigenere.encrypt(text) that returns.
VigenereEncrypt ==
    /\ call.op = "idle"
    /\ vigenere # NotConstructed
    /\ \E text \in Texts :
          call' = [op |-> "Vigenere.encrypt", text |-> text, self |-> vigenere,
                   chained |-> FALSE, orig |-> text, outcome |-> "returned",
                   out |-> Vigenere_encrypt(vigenere, text)]
    /\ UNCHANGED <<caesar, vigenere>>

\* A call of vigenere.decrypt(text) that returns.
VigenereDecrypt ==
    /\ call.op = "idle"
    /\ vigenere # NotConstructed
    /\ \E text \in Texts :
          call' = [op |-> "Vigenere.decrypt", text |-> text, self |-> vigenere,
                   chained |-> FALSE, orig |-> text, outcome |-> "returned",
                   out |-> Vigenere_decrypt(vigenere, text)]
    /\ UNCHANGED <<caesar, vigenere>>

\* vigenere.decrypt(vigenere.encrypt(text)), key and alphabet unchanged.
VigenereDecryptResult ==
    /\ call.op = "Vigenere.encrypt"
    /\ call' = [op |-> "Vigenere.decrypt", text |-> call.out, self |-> vigenere,
                chained |-> TRUE, orig |-> call.text, outcome |-> "returned",
                out |-> Vigenere_decrypt(vigenere, call.out)]
    /\ UNCHANGED <<caesar, vigenere>>

\* The caller is done with the result of the call.
Return ==
    /\ call.op # "idle"
    /\ call' = Idle
    /\ UNCHANGED <<caesar, vigenere>>

Next ==
    \/ NewCaesar
    \/ NewVigenere
    \/ CaesarSetAlphabet
    \/ CaesarEncrypt
    \/ CaesarDecrypt
    \/ CaesarDecryptResult
    \/ VigenereSetKey
    \/ VigenereSetAlphabet
    \/ VigenereGenerateFullKey
    \/ VigenereEncrypt
    \/ VigenereDecrypt
    \/ VigenereDecryptResult
    \/ Return

Spec == Init /\ [][Next]_vars

(***************************************************************************)
(* The helper mod on its own: the inputs are drawn, then mod is applied.   *)
(***************************************************************************)

\* A call of mod(k, n) with n > 0.
ModCall ==
    /\ call.op = "idle"
    /\ \E k \in (0 - MaxModK)..MaxModK, n \in 1..MaxModN :
          call' = [op |-> "mod", k |-> k, n |-> n, outcome |-> "returned",
                   out |-> mod(k, n)]
    /\ UNCHANGED <<caesar, vigenere>>

NextMod ==
    \/ ModCall
    \/ Return

SpecMod == Init /\ [][NextMod]_vars

(***************************************************************************)
(* Properties.                                                             *)
(***************************************************************************)
InAlphabet(text, alphabet) == Range(text) \subseteq Range(alphabet)

\* C2: mod(k, n) is in 0..n-1 and congruent to k modulo n, for every integer
\* k and every n > 0; mod(-1, 26) = 25, mod(26, 26) = 0 and mod(0, 1) = 0.
C2_ModInRange ==
    call.op = "mod" =>
        /\ call.out \in 0..(call.n - 1)
        /\ (call.out - call.k) % call.n = 0
        /\ (call.k = -1 /\ call.n = 26 => call.out = 25)
        /\ (call.k = 26 /\ call.n = 26 => call.out = 0)
        /\ (call.k = 0 /\ call.n = 1 => call.out = 0)

\* C2 on the inputs where the code keeps the contract: for k >= -n the
\* result of mod(k, n) is in 0..n-1 and congruent to k.
C2_ModInRangeFromMinusN ==
    (call.op = "mod" /\ call.k >= 0 - call.n) =>
        /\ call.out \in 0..(call.n - 1)
        /\ (call.out - call.k) % call.n = 0

\* C1: with a duplicate-free alphabet and a text of alphabet symbols,
\* Caesar.decrypt(Caesar.encrypt(text, s), s) is text, for every shift s.
C1_CaesarRoundTrip ==
    (/\ call.op = "Caesar.decrypt"
     /\ call.chained
     /\ NoDuplicates(call.self.alphabet)
     /\ InAlphabet(call.orig, call.self.alphabet)) => call.out = call.orig

\* C3: with key and alphabet unchanged, a duplicate-free alphabet, a
\* non-empty key of alphabet symbols and a text of alphabet symbols,
\* Vigenere.decrypt(Vigenere.encrypt(text)) is text.
C3_VigenereRoundTrip ==
    (/\ call.op = "Vigenere.decrypt"
     /\ call.chained
     /\ NoDuplicates(call.self.alphabet)
     /\ call.self.key # <<>>
     /\ InAlphabet(call.self.key, call.self.alphabet)
     /\ InAlphabet(call.orig, call.self.alphabet)) => call.out = call.orig

\* The text "attack at dawn" is encrypted under key "key" over a-z plus
\* space to another text, which decrypts to "attack at dawn".
C3_Witness ==
    /\ call.op = "Vigenere.decrypt"
    /\ call.chained
    /\ call.self.alphabet = Latin27
    /\ call.self.key = Key
    /\ call.orig = AttackAtDawn
    /\ call.text # AttackAtDawn
    /\ call.out = AttackAtDawn

\* C4: encrypt and decrypt of both ciphers return as many symbols as the
\* text has, and where the input symbol is in the alphabet the output symbol
\* at that position is in the alphabet.
C4_LengthPreserved ==
    call.op \in CipherOps =>
        /\ Len(call.out) = Len(call.text)
        /\ \A i \in 1..Len(call.text) :
              call.text[i] \in Range(call.self.alphabet) =>
                  /\ i <= Len(call.out)
                  /\ call.out[i] \in Range(call.self.alphabet)

\* C5: encrypt and decrypt of both ciphers return, and every input symbol
\* that is not in the alphabet is at the same position of the output.
C5_PassThrough ==
    call.op \in CipherOps =>
        /\ call.outcome = "returned"
        /\ \A i \in 1..Len(call.text) :
              call.text[i] \notin Range(call.self.alphabet) =>
                  /\ i <= Len(call.out)
                  /\ call.out[i] = call.text[i]

\* C6: Vigenere.encrypt and Vigenere.decrypt of a non-empty text with an
\* empty key end in an EmptyKey error.
C6_EmptyKeyFails ==
    (/\ call.op \in {"Vigenere.encrypt", "Vigenere.decrypt"}
     /\ call.self.key = <<>>
     /\ call.text # <<>>) => call.outcome = "EmptyKey"

\* C7 as stated: encrypt and decrypt of either cipher on a non-empty text with
\* an empty alphabet end in an InvalidAlphabet error.
C7_EmptyAlphabetFails ==
    (/\ call.op \in CipherOps
     /\ call.self.alphabet = <<>>
     /\ call.text # <<>>) => call.outcome = "InvalidAlphabet"

\* C7 amended: encrypt and decrypt of either cipher with an empty alphabet
\* return the text unchanged, every symbol passing through, and raise no
\* error.
C7_EmptyAlphabetPassesThrough ==
    (/\ call.op \in CipherOps
     /\ call.self.alphabet = <<>>) =>
        /\ call.outcome = "returned"
        /\ call.out = call.text

\* A text of two symbols is encrypted by the shift cipher with an empty
\* alphabet and a shift other than 0.
C7_Witness ==
    /\ call.op = "Caesar.encrypt"
    /\ call.self.alphabet = <<>>
    /\ Len(call.text) = 2
    /\ call.shiftArg.given
    /\ call.shiftArg.val # 0
    /\ call.out = call.text

\* C8: new Caesar() has shift 3 and the default alphabet, and a constructor
\* called without the alphabet returns an instance with the default alphabet
\* (with a trailing space for Vigenere): omitted arguments raise no error.
C8_ConstructionDefaults ==
    /\ (call.op = "new Caesar" /\ ~call.alphabetArg.given) =>
          /\ call.result.outcome = "returned"
          /\ call.result.instance.alphabet = DEFAULT_ALPHABET
          /\ (~call.shiftArg.given => call.result.instance.shift = 3)
    /\ (call.op = "new Caesar" /\ ~call.keywordArg.given) =>
          call.result.outcome = "returned"
    /\ (call.op = "new Vigenere" /\ ~call.alphabetArg.given) =>
          /\ call.result.outcome = "returned"
          /\ call.result.instance.alphabet = Append(DEFAULT_ALPHABET, " ")
    /\ (call.op = "new Vigenere" /\ ~call.keyArg.given) =>
          call.result.outcome = "returned"

\* C9: with a non-empty key, generateFullKey(text) has as many symbols as
\* the text and its i-th symbol is key[i mod len(key)], whatever the text
\* and the alphabet are.
C9_KeyStream ==
    (/\ call.op = "Vigenere.generateFullKey"
     /\ call.self.key # <<>>) =>
        /\ Len(call.out) = Len(call.text)
        /\ \A i \in 0..(Len(call.text) - 1) :
              call.out[i + 1] = call.self.key[(i % Len(call.self.key)) + 1]

\* The key "key" is stretched over a text longer than it.
C9_Witness ==
    /\ call.op = "Vigenere.generateFullKey"
    /\ call.self.key = Key
    /\ call.text = Hello
    /\ call.out = <<"k", "e", "y", "k", "e">>

\* C10: Caesar.decrypt(text, s) with s given is Caesar.encrypt(text, -s)
\* whatever shift is stored; with s omitted it is Caesar.encrypt(text, -shift)
\* for the stored shift; and after encrypt or decrypt the instance is as it
\* was at the call.
C10_DecryptIsEncryptNegated ==
    /\ (call.op = "Caesar.decrypt" /\ call.shiftArg.given) =>
          call.out = Caesar_encrypt(call.self, call.text,
                                    Given(0 - call.shiftArg.val))
    /\ (call.op = "Caesar.decrypt" /\ ~call.shiftArg.given) =>
          call.out = Caesar_encrypt(call.self, call.text,
                                    Given(0 - call.self.shift))
    /\ (call.op \in {"Caesar.encrypt", "Caesar.decrypt"}) => caesar = call.self

\* decrypt is called with a shift other than the stored one, and the stored
\* one would give another text.
C10_Witness ==
    /\ call.op = "Caesar.decrypt"
    /\ call.shiftArg.given
    /\ call.shiftArg.val # call.self.shift
    /\ call.out # call.text
    /\ call.out # Caesar_encrypt(call.self, call.text, Given(0 - call.self.shift))

====
